---- MODULE Spec2Model ----
(***************************************************************************)
(* SnapAsk conversation persistence: the conversations and messages tables *)
(* of 001_initial_schema.js and the ConversationService that reads and     *)
(* writes them through the better-sqlite3 handle DatabaseService opens.    *)
(*                                                                         *)
(* better-sqlite3 is synchronous and the main process is single-threaded,  *)
(* so every service call runs to completion (or to its first throw) before *)
(* the next one starts: one action per call. A read is an operator on the  *)
(* tables that yields every value the call can return: where ORDER BY      *)
(* leaves rows of equal key in an open order, that is more than one.       *)
(*                                                                         *)
(* Spec explores every write path on messages; SpecUpdate, SpecList and    *)
(* SpecRecent explore the same actions on the inputs of the metadata edits *)
(* and of the listings; SpecTitle explores generateTitle on its own.       *)
(*                                                                         *)
(* SpecBoot is the life of the main process around the store: start-up     *)
(* with DatabaseService.initialize() and its migrations, the conversation  *)
(* handlers, shutdown, and the next start on the same database file.       *)
(* SpecDb is DatabaseService on its own, initialize() and close() called   *)
(* in any order. SpecRequests is the six conversation handlers called with *)
(* and without a payload.                                                  *)
(*                                                                         *)
(* SpecAppend and SpecScreenshot explore the message rows and the          *)
(* screenshot columns under every operation of the service. SpecRenderer   *)
(* is one window (main app or popup) sending prompts: the AI request and   *)
(* the saves of each send are awaited and interleave with the user and     *)
(* with each other. SpecDesktop is the screenshot shortcut, the capture    *)
(* subprocess and the floating window with its events.                     *)
(***************************************************************************)
EXTENDS Integers, Sequences, FiniteSets, TLC

VARIABLES
    conversations,  \* table conversations: id -> row
    messages,       \* table messages: the rows in insertion (rowid) order
    now,            \* the last value Date.now() returned
    convIds,        \* how many conversation ids randomUUID() has issued
    msgIds,         \* how many message ids randomUUID() has issued
    ret,            \* outcome of the last service call: "ok" or the error thrown
    titleInput,     \* the argument a call of generateTitle is made with
    titleOutput,    \* what that call returned, NULL before it
    process,        \* the main process: "launched", "ready" (handlers set up) or "quit"
    handles,        \* the handles new Database() has returned, each "open" or "closed"
    db,             \* DatabaseService.db: 0 for null, else the index of its handle
    conversationService, \* 0 for null, else the index of the handle the service holds
    tables,         \* the tables the database file holds
    schemaVersion,  \* metadata value of key schema_version, NULL without such a row
    ran,            \* versions whose up() the last runMigrations called, in call order
    surface,        \* the window the user works in: "app" (main app) or "popup"
    isSending,      \* its state isSending (isAsking in the popup)
    history,        \* its state conversationHistory (currentConversation in the popup)
    rendererConversationId, \* its state conversationId, 0 for null
    sends,          \* the calls of handleSend (handleAsk), each with what its closure holds
    windows,        \* the floating BrowserWindows ever made, each with its listeners
    floatingWindow, \* WindowManager.floatingWindow: 0 for null, else the index of a window
    fault,          \* a window listener has used a window that is null or destroyed
    isCapturing,    \* ScreenshotService.isCapturing
    running,        \* screencapture subprocesses that have not called back yet
    captured        \* what the last press of the shortcut came to, NULL before it

\* the state of the renderer
renderer == <<surface, isSending, history, rendererConversationId, sends>>

\* the floating windows and the screenshot capture
desktop == <<windows, floatingWindow, fault, isCapturing, running, captured>>

vars ==
    <<conversations, messages, now, convIds, msgIds, ret, titleInput, titleOutput,
      process, handles, db, conversationService, tables, schemaVersion, ran,
      surface, isSending, history, rendererConversationId, sends,
      windows, floatingWindow, fault, isCapturing, running, captured>>

\* what is no part of the two tables and the service's bookkeeping
others ==
    <<titleInput, titleOutput, process, handles, db, conversationService, tables,
      schemaVersion, ran, surface, isSending, history, rendererConversationId, sends,
      windows, floatingWindow, fault, isCapturing, running, captured>>

\* ------------------------------------------------------------------ bounds
MaxConvs == 2   \* conversations ever created
MaxMsgs  == 2   \* messages ever inserted
MaxTime  == 1   \* the clock runs over 0..MaxTime
MaxItems == 1   \* longest items array handed to saveCompleteConversation
MaxLimit == 2   \* largest limit and offset of a listing
MaxFewMsgs == 1 \* messages ever inserted where listings by recency are explored
MaxPad   == 1   \* most blanks before and after the text of a first prompt
MaxOver  == 30  \* first prompts run up to this many characters past the title length
MaxVersion == 2 \* migration files 1..MaxVersion are in the migrations directory
MaxOpens == 3   \* handles opened within one process

\* ------------------------------------------------------------------ values
NULL == "<null>"                 \* SQL NULL / JS null
ConvIdArgs == 1..MaxConvs        \* ids a caller may pass: issued or not, live or deleted
Min(a, b) == IF a < b THEN a ELSE b

\* The state the service works on, as one record.
State ==
    [conversations |-> conversations, messages |-> messages, now |-> now,
     convIds |-> convIds, msgIds |-> msgIds, ret |-> ret]

Is(st) ==
    /\ conversations = st.conversations
    /\ messages = st.messages
    /\ now = st.now
    /\ convIds = st.convIds
    /\ msgIds = st.msgIds
    /\ ret = st.ret

Becomes(st) ==
    /\ conversations' = st.conversations
    /\ messages' = st.messages
    /\ now' = st.now
    /\ convIds' = st.convIds
    /\ msgIds' = st.msgIds
    /\ ret' = st.ret
    /\ UNCHANGED others

\* Date.now(): a later call returns the same millisecond or a later one.
DateNow(t) == {u \in {t, t + 1} : u <= MaxTime}

\* No call of generateTitle is under way.
NoTitleCall == titleInput = NULL /\ titleOutput = NULL

\* The window as it is mounted: nothing sent, no conversation id; no floating window
\* has been made and no capture started.
Mounted ==
    /\ isSending = FALSE
    /\ history = <<>>
    /\ rendererConversationId = 0
    /\ sends = <<>>
    /\ windows = <<>>
    /\ floatingWindow = 0
    /\ fault = FALSE
    /\ isCapturing = FALSE
    /\ running = 0
    /\ captured = NULL

\* Number.prototype.toString() and parseInt(value, 10), on what setVersion writes
Digits == "0123456789"
Digit(d) == SubSeq(Digits, d + 1, d + 1)

RECURSIVE NumberToString(_)
NumberToString(n) == IF n < 10 THEN Digit(n) ELSE NumberToString(n \div 10) \o Digit(n % 10)

RECURSIVE ParseDigits(_, _)
ParseDigits(str, acc) ==
    IF Len(str) = 0 \/ ~(\E d \in 0..9 : Digit(d) = SubSeq(str, 1, 1)) THEN acc
    ELSE ParseDigits(SubSeq(str, 2, Len(str)),
                     10 * acc + (CHOOSE d \in 0..9 : Digit(d) = SubSeq(str, 1, 1)))

ParseInt(value) == ParseDigits(value, 0)

\* The migration files: module.exports.version of each.
Versions == 1..MaxVersion

\* The tables 001_initial_schema creates, in the order it creates them.
AllTables == {"conversations", "messages", "metadata"}

\* The process after a start-up that found or brought the schema up to date: one
\* open handle, held by the service, handlers set up.
Serving ==
    /\ process = "ready"
    /\ handles = <<"open">>
    /\ db = 1
    /\ conversationService = 1
    /\ tables = AllTables
    /\ schemaVersion = NumberToString(MaxVersion)
    /\ ran = <<>>

\* ------------------------------------------------------------------ schema
\* PRAGMA foreign_keys = ON, set on the handle before any statement runs.
ForeignKeysOff == FALSE
ForeignKeysOn == TRUE

\* FOREIGN KEY (conversation_id) REFERENCES conversations(id) ON DELETE CASCADE:
\* the message rows that survive the deletion of conversation id.
NoCascade(msgs, id) == msgs
EveryRow(msgs, id) == <<>>
OnDeleteCascade(msgs, id) ==
    IF ForeignKeysOn THEN SelectSeq(msgs, LAMBDA m : m.conversation_id # id) ELSE msgs

\* INSERT INTO messages: the constraint the row violates, or "ok".
InsertMessageCheck(convs, row) ==
    IF row.role = NULL \/ row.content = NULL
    THEN "SQLITE_CONSTRAINT_NOTNULL"
    ELSE IF ForeignKeysOn /\ row.conversation_id \notin DOMAIN convs
    THEN "SQLITE_CONSTRAINT_FOREIGNKEY"
    ELSE "ok"

\* ------------------------------------------------------------------ utility
\* calculateHash: SHA-256 hex digest of the data URL (a tagged injection here).
calculateHash(dataUrl) == "sha256(" \o dataUrl \o ")"

\* ------------------------------------------------------------------ updates
\* UPDATE conversations SET updated_at = ? WHERE id = ?
NoTimestampUpdate(convs, conversationId, t) == convs
updateConversationTimestamp(convs, conversationId, t) ==
    [c \in DOMAIN convs |->
        IF c = conversationId THEN [convs[c] EXCEPT !.updated_at = t] ELSE convs[c]]

\* UPDATE conversations SET message_count = message_count + 1 WHERE id = ?
NoIncrementMessageCount(convs, conversationId) == convs
incrementMessageCount(convs, conversationId) ==
    [c \in DOMAIN convs |->
        IF c = conversationId
        THEN [convs[c] EXCEPT !.message_count = @ + 1] ELSE convs[c]]

\* ------------------------------------------------------------------ create
\* createConversation(screenshotDataUrl): every state it can end in.
createConversationRun(st, screenshotDataUrl) ==
    LET id == st.convIds + 1
        given == screenshotDataUrl # NULL /\ screenshotDataUrl # ""
        hash == IF given THEN calculateHash(screenshotDataUrl) ELSE NULL
    IN  { [st EXCEPT
            !.conversations = (id :> [screenshot_data_url |-> IF given THEN screenshotDataUrl ELSE NULL,
                                      screenshot_hash |-> hash,
                                      title |-> NULL,
                                      created_at |-> t,
                                      updated_at |-> t,
                                      message_count |-> 0,
                                      starred |-> 0,
                                      archived |-> 0]) @@ @,
            !.convIds = id,
            !.now = t,
            !.ret = "ok"] : t \in DateNow(st.now) }

\* saveMessage(conversationId, role, content, error): every state it can end in.
\* A throwing INSERT leaves both tables as they were.
saveMessageRun(st, conversationId, role, content, error) ==
    UNION {
        LET row == [id |-> st.msgIds + 1,
                    conversation_id |-> conversationId,
                    role |-> role,
                    content |-> content,
                    timestamp |-> timestamp,
                    error |-> IF error THEN 1 ELSE 0]
            chk == InsertMessageCheck(st.conversations, row)
        IN  IF chk # "ok"
            THEN {[st EXCEPT !.now = timestamp, !.ret = chk]}
            ELSE { [st EXCEPT
                      !.messages = Append(@, row),
                      !.msgIds = @ + 1,
                      !.conversations =
                          incrementMessageCount(
                              updateConversationTimestamp(@, conversationId, t2),
                              conversationId),
                      !.now = t2,
                      !.ret = "ok"] : t2 \in DateNow(timestamp) }
        : timestamp \in DateNow(st.now) }

\* updateConversation: const allowed = ['title', 'starred', 'archived']
allowedPlusCounters == {"title", "starred", "archived", "message_count", "created_at"}
allowedPlusScreenshot == {"title", "starred", "archived", "screenshot_data_url"}
allowed == {"title", "starred", "archived"}

\* updateConversation: if (sets.length === 0) return;
NeverReturnsEarly(sets) == FALSE
NothingToSet(sets) == sets = {}

\* updateConversation(conversationId, updates): updates is an object, modelled as a
\* function from its keys to their values.
updateConversationRun(st, conversationId, updates) ==
    LET sets == {key \in DOMAIN updates : key \in allowed}
    IN  IF NothingToSet(sets)
        THEN {[st EXCEPT !.ret = "ok"]}
        ELSE { [st EXCEPT
                  !.conversations =
                      [c \in DOMAIN @ |->
                          IF c = conversationId
                          THEN [col \in DOMAIN @[c] |->
                                   IF col \in sets THEN updates[col]
                                   ELSE IF col = "updated_at" THEN t
                                   ELSE @[c][col]]
                          ELSE @[c]],
                  !.now = t,
                  !.ret = "ok"] : t \in DateNow(st.now) }

\* ------------------------------------------------------------------ delete
\* deleteConversation: DELETE FROM conversations WHERE id = ?
deleteConversationRun(st, conversationId) ==
    { [st EXCEPT
         !.conversations = [c \in DOMAIN @ \ {conversationId} |-> @[c]],
         !.messages = OnDeleteCascade(@, conversationId),
         !.ret = "ok"] }

\* ------------------------------------------------------------------ batch
\* conversation.forEach(item => { saveMessage(user); saveMessage(assistant) }):
\* the first throw ends the loop and leaves what was written before it.
RECURSIVE saveItems(_, _, _)
saveItems(st, id, items) ==
    IF items = <<>> THEN {st}
    ELSE UNION {
            IF s1.ret # "ok" THEN {s1}
            ELSE UNION {
                    IF s2.ret # "ok" THEN {s2} ELSE saveItems(s2, id, Tail(items))
                    : s2 \in saveMessageRun(s1, id, "assistant",
                                            Head(items).answer, Head(items).error) }
            : s1 \in saveMessageRun(st, id, "user", Head(items).prompt, FALSE) }

\* the batch inside one transaction: a throw takes back what was written
InOneTransaction(st, screenshotDataUrl, conversation) ==
    { IF r.ret = "ok" THEN r ELSE [st EXCEPT !.ret = r.ret]
      : r \in UNION { saveItems(s0, s0.convIds, conversation)
                      : s0 \in createConversationRun(st, screenshotDataUrl) } }

\* saveCompleteConversation(screenshotDataUrl, conversation)
saveCompleteConversationRun(st, screenshotDataUrl, conversation) ==
    UNION { saveItems(s0, s0.convIds, conversation)
            : s0 \in createConversationRun(st, screenshotDataUrl) }

\* ------------------------------------------------------------------ read
\* The orders a SELECT may return the rows of S in when nothing sorts them.
Arrangements(S) ==
    {s \in [1..Cardinality(S) -> S] : \A i, j \in DOMAIN s : i # j => s[i] # s[j]}

\* s is in the order the two-place relation given as its graph Le (a set of pairs)
\* asks for: ORDER BY. Rows with equal keys come in an order SQL leaves open.
Sorted(s, Le) == \A i, j \in DOMAIN s : i < j => <<s[i], s[j]>> \in Le

NotFound == [found |-> FALSE]

\* getConversation: SELECT * FROM conversations WHERE id = ?
getConversationIn(convs, conversationId) ==
    IF conversationId \in DOMAIN convs
    THEN [found |-> TRUE, id |-> conversationId] @@ convs[conversationId]
    ELSE NotFound

getConversation(conversationId) == getConversationIn(conversations, conversationId)

\* The rows of messages with conversation_id = id.
MessagesOf(msgs, id) == {msgs[i] : i \in {k \in DOMAIN msgs : msgs[k].conversation_id = id}}

\* ORDER BY timestamp ASC, over the rows S
TimestampAsc(S) == {p \in S \X S : p[1].timestamp <= p[2].timestamp}

\* The shape the UI expects of a message row.
UiMessage(msg) ==
    [id |-> msg.id,
     prompt |-> IF msg.role = "user" THEN msg.content ELSE "undefined",
     answer |-> IF msg.role = "assistant" THEN msg.content ELSE "undefined",
     role |-> msg.role,
     content |-> msg.content,
     timestamp |-> msg.timestamp,
     error |-> (msg.error = 1)]

\* getConversationWithMessages(conversationId): every value it can return.
getConversationWithMessagesIn(convs, msgs, conversationId) ==
    LET conversation == getConversationIn(convs, conversationId)
    IN  IF ~conversation.found THEN {NotFound}
        ELSE LET found == MessagesOf(msgs, conversationId)
             IN  { [messages |-> [i \in DOMAIN rows |-> UiMessage(rows[i])]] @@ conversation
                   : rows \in {s \in Arrangements(found) : Sorted(s, TimestampAsc(found))} }

getConversationWithMessages(conversationId) ==
    getConversationWithMessagesIn(conversations, messages, conversationId)

\* The LOAD_CONVERSATION handler: the envelope it answers with, given what
\* getConversationWithMessages returned.
AlwaysSuccess(conversation) == [success |-> TRUE, conversation |-> conversation]
LoadConversationReply(conversation) ==
    IF ~conversation.found
    THEN [success |-> FALSE, error |-> "Conversation not found"]
    ELSE [success |-> TRUE, conversation |-> conversation]

LoadConversation(conversationId) ==
    {LoadConversationReply(r) : r \in getConversationWithMessages(conversationId)}

\* ------------------------------------------------------------------ titles
IsSpace(ch) == ch \in {" ", "\t", "\n"}

\* String.prototype.trim
RECURSIVE TrimStart(_)
TrimStart(str) ==
    IF Len(str) > 0 /\ IsSpace(SubSeq(str, 1, 1))
    THEN TrimStart(SubSeq(str, 2, Len(str))) ELSE str

RECURSIVE TrimEnd(_)
TrimEnd(str) ==
    IF Len(str) > 0 /\ IsSpace(SubSeq(str, Len(str), Len(str)))
    THEN TrimEnd(SubSeq(str, 1, Len(str) - 1)) ELSE str

Trim(str) == TrimEnd(TrimStart(str))

\* String.prototype.substring(0, n)
Substring0(str, n) == SubSeq(str, 1, Min(n, Len(str)))

\* the values JS takes for false in `x || y` and `x ? a : b`, among strings and null
Falsy(x) == x = NULL \/ x = ""

TitleChars == 50
PreviewChars == 100

\* generateTitle(firstPrompt)
TruncateOnly(firstPrompt) ==
    IF Falsy(firstPrompt) THEN "Untitled Conversation"
    ELSE Substring0(Trim(firstPrompt), TitleChars)

generateTitle(firstPrompt) ==
    IF Falsy(firstPrompt) THEN "Untitled Conversation"
    ELSE LET title == Substring0(Trim(firstPrompt), TitleChars)
         IN  IF Len(title) < Len(Trim(firstPrompt)) THEN title \o "..." ELSE title

\* ------------------------------------------------------------------ listing
\* filters: an object whose archived and starred are true, false or missing.
FilterValues == {"true", "false", "undefined"}
Filters == [archived : FilterValues, starred : FilterValues]
NoFilters == [archived |-> "undefined", starred |-> "undefined"]

\* The WHERE clause getAllConversations builds.
WhereShowsAllByDefault(row, filters) ==
    /\ (filters.archived = "true" => row.archived = 1)
    /\ (filters.archived = "false" => row.archived = 0)
    /\ (filters.starred = "true" => row.starred = 1)

WhereStarredFirst(row, filters) ==
    IF filters.starred = "true" THEN row.starred = 1
    ELSE IF filters.archived = "true" THEN row.archived = 1
    ELSE row.archived = 0

WhereClause(row, filters) ==
    /\ IF filters.archived = "true" THEN row.archived = 1
       ELSE IF filters.archived = "false" THEN row.archived = 0
       ELSE row.archived = 0
    /\ (filters.starred = "true" => row.starred = 1)

\* ORDER BY c.updated_at DESC, over the conversation ids S
CreatedAtDesc(convs, S) == {p \in S \X S : convs[p[1]].created_at >= convs[p[2]].created_at}
UpdatedAtDesc(convs, S) == {p \in S \X S : convs[p[1]].updated_at >= convs[p[2]].updated_at}

\* LIMIT ? OFFSET ? (both non-negative here)
LimitOffset(s, limit, offset) == SubSeq(s, offset + 1, Min(Len(s), offset + limit))

\* (SELECT content FROM messages WHERE conversation_id = c.id AND role = ?
\*  ORDER BY timestamp ASC LIMIT 1): every value the subquery can yield.
FirstContent(msgs, id, role) ==
    LET S == {m \in MessagesOf(msgs, id) : m.role = role}
    IN  IF S = {} THEN {NULL}
        ELSE {m.content : m \in {x \in S : \A y \in S : x.timestamp <= y.timestamp}}

\* conversations.map(c => ...): the summary of one selected row
Summary(convs, id, first_prompt, first_answer) ==
    [id |-> id,
     created_at |-> convs[id].created_at,
     updated_at |-> convs[id].updated_at,
     message_count |-> convs[id].message_count,
     starred |-> convs[id].starred,
     archived |-> convs[id].archived,
     title |-> generateTitle(IF Falsy(first_prompt) THEN "Untitled" ELSE first_prompt),
     preview |-> IF Falsy(first_answer) THEN "" ELSE Substring0(first_answer, PreviewChars)]

Summaries(convs, msgs, id) ==
    {Summary(convs, id, fp, fa) :
        fp \in FirstContent(msgs, id, "user"), fa \in FirstContent(msgs, id, "assistant")}

RECURSIVE SummariesOf(_, _, _)
SummariesOf(convs, msgs, ids) ==
    IF ids = <<>> THEN {<<>>}
    ELSE {<<h>> \o t : h \in Summaries(convs, msgs, Head(ids)),
                       t \in SummariesOf(convs, msgs, Tail(ids))}

\* getAllConversations(limit, offset, filters): every value it can return.
getAllConversationsIn(convs, msgs, limit, offset, filters) ==
    LET selected == {c \in DOMAIN convs : WhereClause(convs[c], filters)}
    IN  UNION { SummariesOf(convs, msgs, LimitOffset(s, limit, offset))
                : s \in {a \in Arrangements(selected) : Sorted(a, UpdatedAtDesc(convs, selected))} }

getAllConversations(limit, offset, filters) ==
    getAllConversationsIn(conversations, messages, limit, offset, filters)

\* ------------------------------------------------------------------ actions
CreateConversation(screenshotDataUrl) ==
    /\ convIds < MaxConvs
    /\ \E st \in createConversationRun(State, screenshotDataUrl) : Becomes(st)

SaveMessage(conversationId, role, content, error) ==
    /\ msgIds < MaxMsgs
    /\ \E st \in saveMessageRun(State, conversationId, role, content, error) : Becomes(st)

UpdateConversation(conversationId, updates) ==
    \E st \in updateConversationRun(State, conversationId, updates) : Becomes(st)

DeleteConversation(conversationId) ==
    \E st \in deleteConversationRun(State, conversationId) : Becomes(st)

SaveCompleteConversation(screenshotDataUrl, conversation) ==
    /\ convIds < MaxConvs
    /\ msgIds + 2 * Len(conversation) <= MaxMsgs
    /\ \E st \in saveCompleteConversationRun(State, screenshotDataUrl, conversation) :
          Becomes(st)

Init ==
    /\ conversations = <<>>
    /\ messages = <<>>
    /\ now = 0
    /\ convIds = 0
    /\ msgIds = 0
    /\ ret = "ok"
    /\ NoTitleCall
    /\ Serving
    /\ surface = "app" /\ Mounted

\* ------------------------------------------------------------------ inputs
Prompt == "What is this?"
Answer == "A screenshot."
RoleArgs == {"user", "assistant", "system", NULL}
ContentArgs == {Prompt, NULL}
Item == [prompt : {Prompt, NULL}, answer : {Answer, NULL}, error : BOOLEAN]
Items == UNION {[1..n -> Item] : n \in 0..MaxItems}
IgnoredUpdates == {<<>>, [message_count |-> 7]}

\* Messages and integrity: every write path of the service. Screenshots and the
\* title/starred/archived edits are left to the specifications further down.
Next ==
    \/ \E s \in {NULL, ""} : CreateConversation(s)
    \/ \E c \in ConvIdArgs, r \in RoleArgs, t \in ContentArgs : SaveMessage(c, r, t, FALSE)
    \/ \E c \in ConvIdArgs, u \in IgnoredUpdates : UpdateConversation(c, u)
    \/ \E c \in ConvIdArgs : DeleteConversation(c)
    \/ \E i \in Items : SaveCompleteConversation(NULL, i)

Spec == Init /\ [][Next]_vars

\* ------------------------------------------------------------------ edits
Screenshot == "data:image/png;base64,AAA"

\* updates objects: empty, keys of the allow-list one at a time (a flag set and
\* reset, a title), keys outside it alone, and an allowed key mixed with one outside
UpdateArgs ==
    {<<>>,
     [message_count |-> 7, created_at |-> 9],
     [starred |-> 1],
     [starred |-> 0],
     [title |-> "Renamed"],
     [archived |-> 1, message_count |-> 7]}

EmptyStore ==
    [conversations |-> <<>>, messages |-> <<>>, now |-> 0, convIds |-> 0, msgIds |-> 0,
     ret |-> "ok"]

\* Metadata edits start from a store that holds a conversation with a screenshot
\* and one message: what createConversation and saveMessage leave behind.
InitUpdate ==
    \E s1 \in createConversationRun(EmptyStore, Screenshot) :
        \E s2 \in saveMessageRun(s1, s1.convIds, "user", Prompt, FALSE) :
            Is(s2) /\ NoTitleCall /\ Serving /\ surface = "app" /\ Mounted

\* Metadata edits: further conversations with a screenshot, and every updates
\* object of UpdateArgs against every id.
NextUpdate ==
    \/ CreateConversation(Screenshot)
    \/ \E c \in ConvIdArgs, u \in UpdateArgs : UpdateConversation(c, u)

SpecUpdate == InitUpdate /\ [][NextUpdate]_vars

\* ------------------------------------------------------------------ listings
\* the edits the sidebar makes: handleStar and handleArchive send 1 or 0
FlagEdits == UNION {{[starred |-> v], [archived |-> v]} : v \in {0, 1}}

\* Listings by flag: conversations starred, unstarred, archived, unarchived, deleted.
NextList ==
    \/ CreateConversation(NULL)
    \/ \E c \in ConvIdArgs, u \in FlagEdits : UpdateConversation(c, u)
    \/ \E c \in ConvIdArgs : DeleteConversation(c)

SpecList == Init /\ [][NextList]_vars

\* Listings by recency: conversations appended to, archived, unarchived, deleted.
NextRecent ==
    \/ CreateConversation(NULL)
    \/ \E c \in DOMAIN conversations :
          msgIds < MaxFewMsgs /\ SaveMessage(c, "user", Prompt, FALSE)
    \/ \E c \in DOMAIN conversations, v \in {0, 1} : UpdateConversation(c, [archived |-> v])
    \/ \E c \in DOMAIN conversations : DeleteConversation(c)

SpecRecent == Init /\ [][NextRecent]_vars

\* a conversation is starred, archived, renamed
Marks == {[starred |-> 1], [archived |-> 1], [title |-> "Renamed"]}

\* Messages under every other operation, from a store of two conversations, one of
\* them with a message: appends, stars, archiving, renaming and deletion.
InitAppend ==
    \E s1 \in createConversationRun(EmptyStore, NULL) :
        \E s2 \in saveMessageRun(s1, s1.convIds, "user", Prompt, FALSE) :
            \E s3 \in createConversationRun(s2, NULL) :
                Is(s3) /\ NoTitleCall /\ Serving /\ surface = "app" /\ Mounted

NextAppend ==
    \/ \E c \in DOMAIN conversations : SaveMessage(c, "assistant", Answer, FALSE)
    \/ \E c \in DOMAIN conversations, u \in Marks : UpdateConversation(c, u)
    \/ \E c \in DOMAIN conversations : DeleteConversation(c)

SpecAppend == InitAppend /\ [][NextAppend]_vars

\* screenshots a conversation is created with: none, the empty string, a picture
OtherScreenshot == "data:image/png;base64,BBB"
ScreenshotArgs == {NULL, "", Screenshot}

\* updates objects that name the screenshot columns, alone and next to an allowed key
ScreenshotUpdates ==
    {[screenshot_hash |-> "0"],
     [screenshot_data_url |-> OtherScreenshot, starred |-> 1]}

\* Screenshots: conversations created with and without one, then edited, appended to
\* and deleted.
NextScreenshot ==
    \/ \E s \in ScreenshotArgs : CreateConversation(s)
    \/ \E c \in DOMAIN conversations, u \in ScreenshotUpdates : UpdateConversation(c, u)
    \/ \E c \in DOMAIN conversations :
          msgIds < MaxFewMsgs /\ SaveMessage(c, "user", Prompt, FALSE)
    \/ \E c \in DOMAIN conversations : DeleteConversation(c)

SpecScreenshot == Init /\ [][NextScreenshot]_vars

\* ------------------------------------------------------------------ title calls
\* Texts a user message can hold: n characters, blanks among them, with up to
\* MaxPad blanks before and after; the empty text and texts of blanks included.
Letters == "ab cdefghi"

RECURSIVE Body(_)
Body(n) ==
    IF n = 0 THEN ""
    ELSE Body(n - 1) \o SubSeq(Letters, ((n - 1) % Len(Letters)) + 1, ((n - 1) % Len(Letters)) + 1)

RECURSIVE Pad(_)
Pad(k) == IF k = 0 THEN "" ELSE " " \o Pad(k - 1)

TitleTexts ==
    {Pad(l) \o Body(n) \o Pad(r) : l \in 0..MaxPad, r \in 0..MaxPad, n \in 0..(TitleChars + MaxOver)}

\* this.generateTitle(text), once
GenerateTitle ==
    /\ titleInput # NULL
    /\ titleOutput = NULL
    /\ titleOutput' = generateTitle(titleInput)
    /\ UNCHANGED <<conversations, messages, now, convIds, msgIds, ret, titleInput>>
    /\ UNCHANGED <<process, handles, db, conversationService, tables, schemaVersion, ran>>
    /\ UNCHANGED renderer
    /\ UNCHANGED desktop

InitTitle ==
    /\ Is(EmptyStore)
    /\ titleInput \in TitleTexts
    /\ titleOutput = NULL
    /\ Serving
    /\ surface = "app" /\ Mounted

NextTitle == GenerateTitle

SpecTitle == InitTitle /\ [][NextTitle]_vars

\* ------------------------------------------------------------------ migrations
\* What DatabaseService.initialize() and close() work on, as one record.
Database ==
    [handles |-> handles, db |-> db, tables |-> tables, schemaVersion |-> schemaVersion,
     ran |-> ran, ret |-> ret]

\* getCurrentVersion: without a metadata table the SELECT throws, which is caught
getCurrentVersion(d) ==
    IF "metadata" \notin d.tables THEN 0
    ELSE IF d.schemaVersion = NULL THEN 0
    ELSE ParseInt(d.schemaVersion)

\* setVersion: INSERT OR REPLACE INTO metadata (key, value, updated_at)
setVersion(d, version) ==
    IF "metadata" \notin d.tables THEN [d EXCEPT !.ret = "SQLITE_ERROR"]
    ELSE [d EXCEPT !.schemaVersion = NumberToString(version)]

\* 001_initial_schema up(db): three db.exec of CREATE TABLE IF NOT EXISTS, then the
\* INSERT OR REPLACE of schema_version '1'. A statement may throw (I/O, disk full);
\* what ran before it stays, since nothing wraps the statements in a transaction.
InitialSchema == <<"conversations", "messages", "metadata">>

upInitialSchema(d) ==
    { [d EXCEPT !.tables = @ \cup {InitialSchema[i] : i \in 1..k},
                !.ret = "SQLITE_ERROR"] : k \in 0..Len(InitialSchema) }
    \cup { [d EXCEPT !.tables = @ \cup AllTables, !.schemaVersion = NumberToString(1)] }

\* up(db) of a later migration file: it returns or throws; it leaves the three
\* tables of the initial schema in place.
upLater(d) == {d, [d EXCEPT !.ret = "SQLITE_ERROR"]}

up(d, version) == IF version = 1 THEN upInitialSchema(d) ELSE upLater(d)

\* .filter(m => m.version > currentVersion)
FilterAtLeast(version, currentVersion) == version >= currentVersion
FilterPending(version, currentVersion) == version > currentVersion

\* .sort((a, b) => a.version - b.version), over the versions S
DirectoryOrder(S) == S \X S
VersionAsc(S) == {p \in S \X S : p[1] <= p[2]}

\* .forEach(migration => { migration.up(this.db); this.setVersion(migration.version) })
RECURSIVE forEachMigration(_, _)
forEachMigration(d, migrations) ==
    IF migrations = <<>> THEN {d}
    ELSE UNION {
            IF u.ret # "ok" THEN {u}
            ELSE LET w == setVersion(u, Head(migrations))
                 IN  IF w.ret # "ok" THEN {w} ELSE forEachMigration(w, Tail(migrations))
            : u \in up([d EXCEPT !.ran = Append(@, Head(migrations))], Head(migrations)) }

\* runMigrations(): every state it can end in; ret is "ok" or what it threw
runMigrationsRun(d) ==
    LET currentVersion == getCurrentVersion(d)
        pending == {v \in Versions : FilterPending(v, currentVersion)}
    IN  UNION { forEachMigration([d EXCEPT !.ran = <<>>, !.ret = "ok"], migrations)
                : migrations \in {a \in Arrangements(pending) : Sorted(a, VersionAsc(pending))} }

\* initialize(): new Database(path) throws, or returns a handle that becomes this.db
\* before the migrations run; whatever is thrown is thrown on to the caller.
initializeRun(d) ==
    {[d EXCEPT !.ret = "SQLITE_CANTOPEN"]}
    \cup runMigrationsRun([d EXCEPT !.handles = Append(@, "open"), !.db = Len(d.handles) + 1])

\* close(): if (this.db) this.db.close(). Closing a handle that is closed already
\* is a no-op of better-sqlite3; this.db keeps referring to the handle.
AnyHandle(d) == TRUE
HasHandle(d) == d.db # 0

closeRun(d) ==
    IF HasHandle(d)
    THEN IF d.db = 0 THEN [d EXCEPT !.ret = "TypeError"]
         ELSE [d EXCEPT !.handles[d.db] = "closed", !.ret = "ok"]
    ELSE [d EXCEPT !.ret = "ok"]

\* getDb(): return this.db
getDb(d) == d.db

\* the DatabaseService becomes d; the rows of the two tables stay
DatabaseBecomes(d) ==
    /\ handles' = d.handles
    /\ db' = d.db
    /\ tables' = d.tables
    /\ schemaVersion' = d.schemaVersion
    /\ ran' = d.ran
    /\ ret' = d.ret
    /\ UNCHANGED <<conversations, messages, now, convIds, msgIds, titleInput, titleOutput>>
    /\ UNCHANGED renderer
    /\ UNCHANGED desktop

\* ------------------------------------------------------------------ process
\* index.js, app.whenReady(): initialize() and new ConversationService(databaseService)
\* in one try block, whose catch logs and goes on; then setupIpcHandlers.
ServiceAnyway(d) == d.db
ServiceIfInitialized(d) == IF d.ret = "ok" THEN d.db ELSE 0

WhenReady ==
    /\ process = "launched"
    /\ \E d \in initializeRun(Database) :
          /\ DatabaseBecomes(d)
          /\ conversationService' = ServiceIfInitialized(d)
    /\ process' = "ready"

\* index.js, app.on('will-quit'): removeIpcHandlers(), then databaseService.close()
WillQuit ==
    /\ process = "ready"
    /\ DatabaseBecomes(closeRun(Database))
    /\ process' = "quit"
    /\ UNCHANGED conversationService

\* The application is started again: a new main process on the same database file.
Launch ==
    /\ process = "quit"
    /\ process' = "launched"
    /\ handles' = <<>>
    /\ db' = 0
    /\ conversationService' = 0
    /\ ran' = <<>>
    /\ ret' = "ok"
    /\ UNCHANGED <<conversations, messages, now, convIds, msgIds, titleInput, titleOutput,
                   tables, schemaVersion>>
    /\ UNCHANGED renderer
    /\ UNCHANGED desktop

\* A handler whose conversationService is null: the call throws a TypeError inside
\* the handler's try block and the answer is {success: false, error}.
ServiceMissing ==
    /\ conversationService = 0
    /\ ret' = "TypeError"
    /\ UNCHANGED <<conversations, messages, now, convIds, msgIds>>
    /\ UNCHANGED others

\* SAVE_CONVERSATION handler
HandleSaveConversation(screenshot, conversation) ==
    /\ process = "ready"
    /\ IF conversation = <<>>
       THEN /\ ret' = "Invalid conversation data"
            /\ UNCHANGED <<conversations, messages, now, convIds, msgIds>>
            /\ UNCHANGED others
       ELSE \/ ServiceMissing
            \/ /\ conversationService # 0
               /\ SaveCompleteConversation(IF Falsy(screenshot) THEN NULL ELSE screenshot,
                                           conversation)

\* SAVE_MESSAGE handler
HandleSaveMessage(conversationId, role, content, error) ==
    /\ process = "ready"
    /\ \/ ServiceMissing
       \/ /\ conversationService # 0
          /\ SaveMessage(conversationId, role, content, error)

\* DELETE_CONVERSATION handler
HandleDeleteConversation(conversationId) ==
    /\ process = "ready"
    /\ \/ ServiceMissing
       \/ /\ conversationService # 0
          /\ DeleteConversation(conversationId)

\* UPDATE_CONVERSATION handler
HandleUpdateConversation(conversationId, updates) ==
    /\ process = "ready"
    /\ \/ ServiceMissing
       \/ /\ conversationService # 0
          /\ UpdateConversation(conversationId, updates)

\* The application before its first start: no database file.
InitBoot ==
    /\ Is(EmptyStore)
    /\ NoTitleCall
    /\ process = "launched"
    /\ handles = <<>>
    /\ db = 0
    /\ conversationService = 0
    /\ tables = {}
    /\ schemaVersion = NULL
    /\ ran = <<>>
    /\ surface = "app" /\ Mounted

OneItem == <<[prompt |-> Prompt, answer |-> Answer, error |-> FALSE]>>

\* Start-up, requests, shutdown, and again.
NextBoot ==
    \/ WhenReady
    \/ WillQuit
    \/ Launch
    \/ \E i \in {<<>>, OneItem} : HandleSaveConversation(NULL, i)
    \/ \E c \in ConvIdArgs : HandleSaveMessage(c, "user", Prompt, FALSE)
    \/ \E c \in ConvIdArgs : HandleDeleteConversation(c)
    \/ \E c \in ConvIdArgs : HandleUpdateConversation(c, [starred |-> 1])

SpecBoot == InitBoot /\ [][NextBoot]_vars

\* ------------------------------------------------------------------ requests
\* ipcMain.handle(channel, async (event, payload) => ...): args is what invoke()
\* was given after the channel, <<>> or <<payload>>. What the handler's promise
\* settles to is in ret: "ok" stands for {success: true, ...}, Rejected for a
\* rejection (an exception thrown outside the handler's try block), anything else
\* for {success: false, error}.
Rejected == "rejected: TypeError"

\* Nothing but ret changes.
Answers(outcomes) ==
    /\ ret' \in outcomes
    /\ UNCHANGED <<conversations, messages, now, convIds, msgIds>>
    /\ UNCHANGED others

\* a parameter list that destructures the payload: ({ a, b }) throws on undefined
DestructuresInParameters(args) == args = <<>>

\* SAVE_CONVERSATION: const { screenshot, conversation } = conversationData, in try
RequestSaveConversation(args) ==
    IF args = <<>>
    THEN process = "ready" /\ Answers({"TypeError"})
    ELSE HandleSaveConversation(args[1].screenshot, args[1].conversation)

\* LOAD_CONVERSATIONS: async (event, { limit, offset, filters })
RequestLoadConversations(args) ==
    /\ process = "ready"
    /\ IF DestructuresInParameters(args) THEN Answers({Rejected})
       ELSE \/ ServiceMissing
            \/ conversationService # 0 /\ Answers({"ok"})

\* LOAD_CONVERSATION: async (event, conversationId); binding undefined throws or
\* matches no row
RequestLoadConversation(args) ==
    /\ process = "ready"
    /\ \/ ServiceMissing
       \/ /\ conversationService # 0
          /\ IF args = <<>> THEN Answers({"TypeError", "Conversation not found"})
             ELSE Answers({IF r.success THEN "ok" ELSE r.error : r \in LoadConversation(args[1])})

\* SAVE_MESSAGE: async (event, { conversationId, role, content, error })
RequestSaveMessage(args) ==
    IF DestructuresInParameters(args)
    THEN process = "ready" /\ Answers({Rejected})
    ELSE HandleSaveMessage(args[1].conversationId, args[1].role, args[1].content,
                           args[1].error)

\* DELETE_CONVERSATION: async (event, conversationId); binding undefined throws or
\* matches no row
RequestDeleteConversation(args) ==
    IF args = <<>>
    THEN /\ process = "ready"
         /\ \/ ServiceMissing
            \/ conversationService # 0 /\ Answers({"TypeError", "ok"})
    ELSE HandleDeleteConversation(args[1])

\* UPDATE_CONVERSATION: async (event, { conversationId, updates })
RequestUpdateConversation(args) ==
    IF DestructuresInParameters(args)
    THEN process = "ready" /\ Answers({Rejected})
    ELSE HandleUpdateConversation(args[1].conversationId, args[1].updates)

\* Payloads: what the preload script sends, and none at all.
SaveConversationArgs ==
    {<<>>} \cup {<<[screenshot |-> NULL, conversation |-> c]>> : c \in {<<>>, OneItem}}
LoadConversationsArgs ==
    {<<>>, <<[limit |-> MaxLimit, offset |-> 0, filters |-> NoFilters]>>}
IdArgs == {<<>>} \cup {<<c>> : c \in ConvIdArgs}
SaveMessageArgs ==
    {<<>>} \cup {<<[conversationId |-> c, role |-> "user", content |-> Prompt, error |-> FALSE]>>
                 : c \in ConvIdArgs}
UpdateConversationArgs ==
    {<<>>} \cup {<<[conversationId |-> c, updates |-> [starred |-> 1]]>> : c \in ConvIdArgs}

\* Start-up, requests with and without payload, shutdown, and again.
NextRequests ==
    \/ WhenReady
    \/ WillQuit
    \/ Launch
    \/ \E a \in SaveConversationArgs : RequestSaveConversation(a)
    \/ \E a \in LoadConversationsArgs : RequestLoadConversations(a)
    \/ \E a \in IdArgs : RequestLoadConversation(a)
    \/ \E a \in SaveMessageArgs : RequestSaveMessage(a)
    \/ \E a \in IdArgs : RequestDeleteConversation(a)
    \/ \E a \in UpdateConversationArgs : RequestUpdateConversation(a)

SpecRequests == InitBoot /\ [][NextRequests]_vars

\* ------------------------------------------------------------------ handle
\* DatabaseService.initialize() and close(), called in any order on one object.
Initialize ==
    /\ Len(handles) < MaxOpens
    /\ \E d \in initializeRun(Database) : DatabaseBecomes(d)
    /\ UNCHANGED <<process, conversationService>>

Close ==
    /\ DatabaseBecomes(closeRun(Database))
    /\ UNCHANGED <<process, conversationService>>

NextDb == Initialize \/ Close

SpecDb == InitBoot /\ [][NextDb]_vars

\* ------------------------------------------------------------------ renderer
\* The React state of one window and the calls of its send handler that are under
\* way. A call keeps the conversationId and the conversation of the render it was
\* started in; every await gives way to the other calls and to the user.
MaxSends == 2

rows == <<conversations, messages, now, convIds, msgIds>>
mainProcess ==
    <<titleInput, titleOutput, process, handles, db, conversationService, tables,
      schemaVersion, ran, windows, floatingWindow, fault, isCapturing, running, captured>>

StoreBecomes(st) ==
    /\ conversations' = st.conversations
    /\ messages' = st.messages
    /\ now' = st.now
    /\ convIds' = st.convIds
    /\ msgIds' = st.msgIds
    /\ ret' = st.ret

\* what ipcRenderer.invoke rejects with when the request reaches no handler
InvokeRejected == "rejected"

\* askAI resolves with {success: true, text}, with {success: false, error}, or rejects
AiResults == {"text", "error", "rejected"}

PromptOf(n) == "Q" \o NumberToString(n)

LoadingText == "Thinking..."

AnswerOf(n, result) ==
    CASE result = "text" -> "A" \o NumberToString(n)
      [] result = "error" -> "Error: failed"
      [] OTHER -> "Error: rejected"

\* the popup shows the screenshot it was opened for
currentScreenshotDataUrl == IF surface = "popup" THEN Screenshot ELSE NULL

\* <textarea disabled={isSending}> in the main app; the popup's <input> has no
\* disabled attribute.
InputDisabled == surface = "app" /\ isSending

\* <button disabled={isSending}>, <button disabled={isAsking}>
ButtonDisabled == isSending

\* The popup awaits the save inside handleAsk, the main app calls
\* saveMessageToDatabase without await.
AlwaysAwaited(s) == TRUE
SaveAwaited(s) == s = "popup"

\* The main app saves whatever answer it shows, the popup only result.text.
Saved(s, isError) == s = "app" \/ ~isError

\* handleSend / handleAsk up to await askAI
Begin ==
    /\ process = "ready"
    /\ Len(sends) < MaxSends
    /\ isSending' = TRUE
    /\ history' =
          IF surface = "app"
          THEN Append(history, [prompt |-> PromptOf(Len(sends) + 1), answer |-> LoadingText,
                                loading |-> TRUE, error |-> FALSE])
          ELSE history
    /\ sends' = Append(sends, [stage |-> "asking",
                               conversationId |-> rendererConversationId,
                               conversation |-> IF surface = "app" THEN <<>> ELSE history])
    /\ UNCHANGED <<surface, rendererConversationId, ret>>
    /\ UNCHANGED rows
    /\ UNCHANGED mainProcess

\* onClick of the Send / Ask button
Click == ~ButtonDisabled /\ Begin

\* onKeyDown of the input, Enter: handleSend() / handleAsk()
PressEnter == ~InputDisabled /\ Begin

\* askAI settles: the answer or the error text is put into the conversation, the save
\* is started and, in the main app, finally runs.
AskSettles(n, result) ==
    /\ n \in DOMAIN sends
    /\ sends[n].stage = "asking"
    /\ LET isError == result # "text"
           entry == [prompt |-> PromptOf(n), answer |-> AnswerOf(n, result),
                     loading |-> FALSE, error |-> isError]
           newConversation == Append(sends[n].conversation, entry)
           stage == IF ~Saved(surface, isError) THEN "done"
                    ELSE IF sends[n].conversationId = 0 THEN "create" ELSE "saveUser"
       IN /\ history' = IF surface = "app"
                        THEN [history EXCEPT ![Len(history)] = entry]
                        ELSE newConversation
          /\ sends' = [sends EXCEPT ![n] =
                          [stage |-> stage, conversationId |-> @.conversationId,
                           conversation |-> IF surface = "app" THEN <<entry>>
                                            ELSE newConversation]]
          /\ isSending' = IF SaveAwaited(surface) /\ stage # "done" THEN isSending ELSE FALSE
    /\ UNCHANGED <<surface, rendererConversationId, ret>>
    /\ UNCHANGED rows
    /\ UNCHANGED mainProcess

\* what the SAVE_CONVERSATION handler does with {screenshot, conversation}
ServeSaveConversation(screenshot, conversation) ==
    IF conversation = <<>> THEN {[State EXCEPT !.ret = "Invalid conversation data"]}
    ELSE IF conversationService = 0 THEN {[State EXCEPT !.ret = "TypeError"]}
    ELSE saveCompleteConversationRun(State, IF Falsy(screenshot) THEN NULL ELSE screenshot,
                                     conversation)

\* what the SAVE_MESSAGE handler does
ServeSaveMessage(conversationId, role, content, error) ==
    IF conversationService = 0 THEN {[State EXCEPT !.ret = "TypeError"]}
    ELSE saveMessageRun(State, conversationId, role, content, error)

\* the call n goes on to the given stage; the popup's finally runs at its end
GoesOn(n, stage) ==
    /\ sends' = [sends EXCEPT ![n].stage = stage]
    /\ isSending' = IF SaveAwaited(surface) /\ stage = "done" THEN FALSE ELSE isSending

\* await saveConversation(...) settles: setConversationId on success, a warning on a
\* failure envelope, the catch block on a rejection.
SaveConversationSettles(n) ==
    /\ n \in DOMAIN sends
    /\ sends[n].stage = "create"
    /\ \/ \E st \in ServeSaveConversation(currentScreenshotDataUrl, sends[n].conversation) :
             /\ StoreBecomes(st)
             /\ rendererConversationId' =
                   IF st.ret = "ok" THEN st.convIds ELSE rendererConversationId
       \/ /\ ret' = InvokeRejected
          /\ UNCHANGED rows
          /\ UNCHANGED rendererConversationId
    /\ GoesOn(n, "done")
    /\ UNCHANGED <<surface, history>>
    /\ UNCHANGED mainProcess

\* await saveMessage(...) settles, for the user message and then for the assistant
\* message: the answer's success flag is not read, a rejection goes to the catch block.
SaveMessageSettles(n) ==
    /\ n \in DOMAIN sends
    /\ sends[n].stage \in {"saveUser", "saveAssistant"}
    /\ LET entry == sends[n].conversation[Len(sends[n].conversation)]
           user == sends[n].stage = "saveUser"
       IN \/ /\ \E st \in ServeSaveMessage(sends[n].conversationId,
                                           IF user THEN "user" ELSE "assistant",
                                           IF user THEN entry.prompt ELSE entry.answer,
                                           IF user THEN FALSE ELSE entry.error) :
                     StoreBecomes(st)
             /\ GoesOn(n, IF user THEN "saveAssistant" ELSE "done")
          \/ /\ ret' = InvokeRejected
             /\ UNCHANGED rows
             /\ GoesOn(n, "done")
    /\ UNCHANGED <<surface, history, rendererConversationId>>
    /\ UNCHANGED mainProcess

\* The window is opened on a main process that has not reached app.whenReady yet.
InitRenderer ==
    /\ Is(EmptyStore)
    /\ NoTitleCall
    /\ process = "launched"
    /\ handles = <<>>
    /\ db = 0
    /\ conversationService = 0
    /\ tables = {}
    /\ schemaVersion = NULL
    /\ ran = <<>>
    /\ surface \in {"app", "popup"}
    /\ Mounted

NextRenderer ==
    \/ WhenReady
    \/ Click
    \/ PressEnter
    \/ \E n \in 1..MaxSends, result \in AiResults : AskSettles(n, result)
    \/ \E n \in 1..MaxSends : SaveConversationSettles(n)
    \/ \E n \in 1..MaxSends : SaveMessageSettles(n)

SpecRenderer == InitRenderer /\ [][NextRenderer]_vars

\* ------------------------------------------------------------------ desktop
\* The screenshot shortcut, ScreenshotService and the floating window of
\* WindowManager. A BrowserWindow is "open", "closing" once close() was called on it,
\* and "destroyed"; Electron emits 'closed' for a destroyed window in a turn of its
\* own, and 'ready-to-show' and 'did-finish-load' for a window not yet destroyed.
MaxWindows == 2

persistence ==
    <<conversations, messages, now, convIds, msgIds, ret, titleInput, titleOutput,
      process, handles, db, conversationService, tables, schemaVersion, ran>>

\* new BrowserWindow(config) with the three listeners of createFloatingWindow
NewWindow ==
    [state |-> "open", closed |-> "on", readyToShow |-> TRUE, didFinishLoad |-> TRUE,
     shown |-> FALSE, received |-> FALSE]

\* this.floatingWindow && !this.floatingWindow.isDestroyed()
Usable(ws, f) == f # 0 /\ ws[f].state # "destroyed"

\* a method call on null or on a destroyed BrowserWindow throws
Throws(ws, f) == f = 0 \/ ws[f].state = "destroyed"

\* _closeFloatingWindow(): the windows and the reference it leaves
closeFloatingWindow(ws, f) ==
    IF Usable(ws, f)
    THEN [windows |-> [ws EXCEPT ![f].closed = "removed", ![f].state = "closing"],
          floatingWindow |-> 0]
    ELSE [windows |-> ws, floatingWindow |-> f]

\* createFloatingWindow(dataUrl)
createFloatingWindow(ws, f) ==
    LET was == closeFloatingWindow(ws, f)
    IN  [windows |-> Append(was.windows, NewWindow), floatingWindow |-> Len(ws) + 1]

\* the 'closed' listener: if (this.floatingWindow === newWindow)
AnyWindow(f, newWindow) == TRUE
IsCurrent(f, newWindow) == f = newWindow

\* captureInteractive: if (this.isCapturing)
NeverCapturing(flag) == FALSE
AlreadyCapturing(flag) == flag

CaptureErrors == {"Capture already in progress", "No image captured", "screencapture failed"}

\* The shortcut is pressed: without an API key the onboarding window is made; else
\* captureInteractive() answers at once while a capture runs, or starts screencapture.
PressShortcut(apiKey) ==
    /\ Len(windows) < MaxWindows
    /\ IF ~apiKey
       THEN /\ captured' = "onboarding"
            /\ UNCHANGED <<isCapturing, running>>
       ELSE IF AlreadyCapturing(isCapturing)
       THEN /\ captured' = "Capture already in progress"
            /\ UNCHANGED <<isCapturing, running>>
       ELSE /\ isCapturing' = TRUE
            /\ running' = running + 1
            /\ captured' = NULL
    /\ UNCHANGED <<windows, floatingWindow, fault>>
    /\ UNCHANGED persistence
    /\ UNCHANGED renderer

\* The callback of execFile: the flag is reset, the promise resolves, and the shortcut
\* handler makes the floating window for a captured image.
CaptureCallback(outcome) ==
    /\ running > 0
    /\ isCapturing' = FALSE
    /\ running' = running - 1
    /\ IF outcome = "image"
       THEN /\ captured' = "ok"
            /\ windows' = createFloatingWindow(windows, floatingWindow).windows
            /\ floatingWindow' = createFloatingWindow(windows, floatingWindow).floatingWindow
       ELSE /\ captured' = outcome
            /\ UNCHANGED <<windows, floatingWindow>>
    /\ UNCHANGED fault
    /\ UNCHANGED persistence
    /\ UNCHANGED renderer

\* CLOSE_WINDOW from the popup: getFloatingWindow().close()
CloseWindow ==
    /\ floatingWindow # 0
    /\ windows[floatingWindow].state = "open"
    /\ windows' = [windows EXCEPT ![floatingWindow].state = "closing"]
    /\ UNCHANGED <<floatingWindow, fault, isCapturing, running, captured>>
    /\ UNCHANGED persistence
    /\ UNCHANGED renderer

\* OPEN_MAIN_APP with no main-app window yet: createMainAppWindow closes the popup
OpenMainApp ==
    /\ Usable(windows, floatingWindow)
    /\ windows' = closeFloatingWindow(windows, floatingWindow).windows
    /\ floatingWindow' = closeFloatingWindow(windows, floatingWindow).floatingWindow
    /\ UNCHANGED <<fault, isCapturing, running, captured>>
    /\ UNCHANGED persistence
    /\ UNCHANGED renderer

\* Electron destroys a window that was closed.
Destroyed(w) ==
    /\ w \in DOMAIN windows
    /\ windows[w].state = "closing"
    /\ windows' = [windows EXCEPT ![w].state = "destroyed"]
    /\ UNCHANGED <<floatingWindow, fault, isCapturing, running, captured>>
    /\ UNCHANGED persistence
    /\ UNCHANGED renderer

\* 'closed' of window w reaches the listener createFloatingWindow gave it.
ClosedEvent(w) ==
    /\ w \in DOMAIN windows
    /\ windows[w].state = "destroyed"
    /\ windows[w].closed = "on"
    /\ IF IsCurrent(floatingWindow, w)
       THEN /\ floatingWindow' = 0
            /\ windows' = [windows EXCEPT ![w].closed = "cleared"]
       ELSE /\ floatingWindow' = floatingWindow
            /\ windows' = [windows EXCEPT ![w].closed = "ignored"]
    /\ UNCHANGED <<fault, isCapturing, running, captured>>
    /\ UNCHANGED persistence
    /\ UNCHANGED renderer

\* 'ready-to-show' of window w: showInactive() on this.floatingWindow
ReadyToShow(w) ==
    /\ w \in DOMAIN windows
    /\ windows[w].state # "destroyed"
    /\ windows[w].readyToShow
    /\ IF Usable(windows, floatingWindow)
       THEN /\ fault' = (fault \/ Throws(windows, floatingWindow))
            /\ windows' = [windows EXCEPT ![w].readyToShow = FALSE,
                                          ![floatingWindow].shown = TRUE]
       ELSE /\ windows' = [windows EXCEPT ![w].readyToShow = FALSE]
            /\ UNCHANGED fault
    /\ UNCHANGED <<floatingWindow, isCapturing, running, captured>>
    /\ UNCHANGED persistence
    /\ UNCHANGED renderer

\* 'did-finish-load' of window w: webContents.send(SCREENSHOT_CAPTURED, dataUrl) on
\* this.floatingWindow
DidFinishLoad(w) ==
    /\ w \in DOMAIN windows
    /\ windows[w].state # "destroyed"
    /\ windows[w].didFinishLoad
    /\ IF Usable(windows, floatingWindow)
       THEN /\ fault' = (fault \/ Throws(windows, floatingWindow))
            /\ windows' = [windows EXCEPT ![w].didFinishLoad = FALSE,
                                          ![floatingWindow].received = TRUE]
       ELSE /\ windows' = [windows EXCEPT ![w].didFinishLoad = FALSE]
            /\ UNCHANGED fault
    /\ UNCHANGED <<floatingWindow, isCapturing, running, captured>>
    /\ UNCHANGED persistence
    /\ UNCHANGED renderer

NextDesktop ==
    \/ \E apiKey \in BOOLEAN : PressShortcut(apiKey)
    \/ \E outcome \in CaptureErrors \cup {"image"} : CaptureCallback(outcome)
    \/ CloseWindow
    \/ OpenMainApp
    \/ \E w \in 1..MaxWindows : Destroyed(w)
    \/ \E w \in 1..MaxWindows : ClosedEvent(w)
    \/ \E w \in 1..MaxWindows : ReadyToShow(w)
    \/ \E w \in 1..MaxWindows : DidFinishLoad(w)

SpecDesktop == Init /\ [][NextDesktop]_vars

\* ================================================================== claims
RowsOf(id) == {k \in DOMAIN messages : messages[k].conversation_id = id}

\* C1: every stored conversation's message_count equals the number of message rows
\* whose conversation_id is its id, and createConversation leaves the new
\* conversation with message_count 0.
C1_CountIsRows ==
    \A c \in DOMAIN conversations :
        conversations[c].message_count = Cardinality(RowsOf(c))

\* C1: message_count equals the number of rows in every reachable state, and is 0
\* right after createConversation.
C1_MessageCount ==
    /\ []C1_CountIsRows
    /\ [][\A s \in {NULL, ""} :
            CreateConversation(s) =>
                getConversationIn(conversations', convIds').message_count = 0]_vars

\* C1 witness: a conversation that received two messages while another one,
\* created as well, holds none.
C1_Witness ==
    \E c, d \in DOMAIN conversations :
        /\ c # d
        /\ conversations[c].message_count = 2
        /\ conversations[d].message_count = 0
        /\ ret = "ok"

\* C2: getConversationWithMessages returns exactly the messages saved to the
\* conversation, in the order in which they were appended, also when two appends
\* got the same millisecond.
AppendOrder(id) == SelectSeq(messages, LAMBDA m : m.conversation_id = id)

C2_AppendOrder ==
    \A c \in DOMAIN conversations :
        \A r \in getConversationWithMessages(c) :
            /\ Len(r.messages) = Cardinality(RowsOf(c))
            /\ [i \in DOMAIN r.messages |-> r.messages[i].id]
                   = [i \in DOMAIN AppendOrder(c) |-> AppendOrder(c)[i].id]

\* C3: every stored message references an existing conversation; deleteConversation
\* of a conversation leaves it not found and none of its messages, and leaves every
\* other conversation and its messages as they were.
C3_NoOrphans ==
    \A k \in DOMAIN messages : messages[k].conversation_id \in DOMAIN conversations

C3_DeleteEffect ==
    \A c \in ConvIdArgs :
        DeleteConversation(c) =>
            /\ getConversationIn(conversations', c) = NotFound
            /\ MessagesOf(messages', c) = {}
            /\ \A d \in DOMAIN conversations \ {c} :
                  /\ getConversationIn(conversations', d) = getConversation(d)
                  /\ getConversationWithMessagesIn(conversations', messages', d)
                         = getConversationWithMessages(d)

\* C3: no message is ever orphaned, and every deleteConversation step has the
\* effect stated above.
C3_Integrity == []C3_NoOrphans /\ [][C3_DeleteEffect]_vars

\* C3 witness: two conversations were created and two messages inserted; one
\* conversation was deleted with its message, the other still holds its own.
C3_Witness ==
    /\ convIds = 2
    /\ msgIds = 2
    /\ Cardinality(DOMAIN conversations) = 1
    /\ Len(messages) = 1
    /\ C3_NoOrphans

\* C4: saveMessage for a conversation id that is not stored throws a storage error
\* and leaves both tables as they were.
C4_Call(c, r, t) == SaveMessage(c, r, t, FALSE) /\ c \notin DOMAIN conversations

C4_MissingParentRejected ==
    [][\A c \in ConvIdArgs, r \in RoleArgs, t \in ContentArgs :
          C4_Call(c, r, t) =>
              /\ ret' \in {"SQLITE_CONSTRAINT_FOREIGNKEY", "SQLITE_CONSTRAINT_NOTNULL"}
              /\ (r # NULL /\ t # NULL => ret' = "SQLITE_CONSTRAINT_FOREIGNKEY")
              /\ UNCHANGED <<conversations, messages, msgIds>>]_vars

\* C4 witness: the foreign key rejected an append while a conversation with a
\* message of its own is stored.
C4_Witness ==
    /\ ret = "SQLITE_CONSTRAINT_FOREIGNKEY"
    /\ \E c \in DOMAIN conversations : conversations[c].message_count = 1

\* C5: every stored message has role user or assistant.
C5_RolesValid ==
    \A k \in DOMAIN messages : messages[k].role \in {"user", "assistant"}

\* C6: updateConversation sets the title, starred and archived it is given, and
\* beyond these changes nothing but updated_at: no other column of the row, no
\* message, no other conversation; keys outside the allow-list are ignored.
Columns ==
    {"screenshot_data_url", "screenshot_hash", "title", "created_at", "updated_at",
     "message_count", "starred", "archived"}

C6_Frame(c, u) ==
    LET given == DOMAIN u \cap {"title", "starred", "archived"}
    IN  /\ DOMAIN conversations' = DOMAIN conversations
        /\ messages' = messages
        /\ \A d \in DOMAIN conversations \ {c} : conversations'[d] = conversations[d]
        /\ c \in DOMAIN conversations =>
              /\ \A col \in given : conversations'[c][col] = u[col]
              /\ \A col \in Columns \ (given \cup {"updated_at"}) :
                    conversations'[c][col] = conversations[c][col]

C6_UpdateOnlyGiven ==
    [][\A c \in ConvIdArgs, u \in UpdateArgs : UpdateConversation(c, u) => C6_Frame(c, u)]_vars

\* C6 witness: a conversation renamed and starred, its screenshot, creation time and
\* message still in place, next to a conversation no edit has touched.
C6_Witness ==
    \E c, d \in DOMAIN conversations :
        /\ c # d
        /\ conversations[c].title = "Renamed"
        /\ conversations[c].starred = 1
        /\ conversations[c].archived = 0
        /\ conversations[c].message_count = 1
        /\ conversations[c].screenshot_data_url = Screenshot
        /\ conversations[c].created_at < conversations[c].updated_at
        /\ conversations[d].title = NULL
        /\ conversations[d].updated_at = conversations[d].created_at

\* C7: updateConversation with no recognised key writes nothing: no row changes,
\* updated_at included, and the clock is not even read.
C7_NoRecognisedKeyIsNoOp ==
    [][\A c \in ConvIdArgs, u \in UpdateArgs :
          (UpdateConversation(c, u) /\ DOMAIN u \cap {"title", "starred", "archived"} = {})
              => UNCHANGED <<conversations, messages, now>>]_vars

\* C7 witness: a stored conversation whose updated_at is behind the clock, so a
\* bump would show; updateConversation(id, {}) is enabled there and maps the state
\* to itself.
C7_Witness ==
    \E c \in DOMAIN conversations :
        /\ conversations[c].updated_at < now
        /\ conversations[c].message_count = 1
        /\ ENABLED UpdateConversation(c, <<>>)

\* C8: a listing whose filters.archived is missing or false holds no archived
\* conversation, and one whose filters.archived is true holds archived ones only.
Paging == 0..MaxLimit

C8_ArchivedFilter ==
    \A limit \in Paging, offset \in Paging, f \in Filters :
        \A r \in getAllConversations(limit, offset, f) :
            \A i \in DOMAIN r :
                /\ r[i].archived = conversations[r[i].id].archived
                /\ f.archived # "true" => r[i].archived = 0
                /\ f.archived = "true" => r[i].archived # 0

\* C8 witness: an archived and an unarchived conversation are stored; the listing
\* without filters shows the one, the listing of the archive the other.
C8_Witness ==
    /\ \E c, d \in DOMAIN conversations :
          conversations[c].archived = 1 /\ conversations[d].archived = 0
    /\ \A r \in getAllConversations(MaxLimit, 0, NoFilters) : Len(r) = 1
    /\ \A r \in getAllConversations(MaxLimit, 0, [NoFilters EXCEPT !.archived = "true"]) :
          Len(r) = 1

\* C9: the listing with filters {starred: true} holds, within limit and offset,
\* exactly the conversations that are starred and not archived.
IdsOf(r) == {r[i].id : i \in DOMAIN r}
StarredOnly == [archived |-> "undefined", starred |-> "true"]
StarredUnarchived ==
    {c \in DOMAIN conversations :
        conversations[c].starred = 1 /\ conversations[c].archived = 0}
Max(a, b) == IF a > b THEN a ELSE b

C9_StarredFilter ==
    \A limit \in Paging, offset \in Paging :
        \A r \in getAllConversations(limit, offset, StarredOnly) :
            /\ IdsOf(r) \subseteq StarredUnarchived
            /\ Cardinality(IdsOf(r)) = Len(r)
            /\ Len(r) = Max(0, Min(limit, Cardinality(StarredUnarchived) - offset))

\* C9 witness: of two starred conversations one is archived, and the starred
\* listing shows only the other.
C9_Witness ==
    /\ \E c, d \in DOMAIN conversations :
          /\ conversations[c].starred = 1 /\ conversations[c].archived = 1
          /\ conversations[d].starred = 1 /\ conversations[d].archived = 0
    /\ \A r \in getAllConversations(MaxLimit, 0, StarredOnly) : Len(r) = 1

\* C10: a listing is sorted by updated_at descending and is the slice
\* [offset, offset + limit) of the selected conversations in that order.
Selected(f) == {c \in DOMAIN conversations : WhereClause(conversations[c], f)}
Newer(f, t) == {c \in Selected(f) : conversations[c].updated_at > t}
NotOlder(f, t) == {c \in Selected(f) : conversations[c].updated_at >= t}

C10_SortedSlice ==
    \A limit \in Paging, offset \in Paging, f \in Filters :
        \A r \in getAllConversations(limit, offset, f) :
            /\ Len(r) = Max(0, Min(limit, Cardinality(Selected(f)) - offset))
            /\ IdsOf(r) \subseteq Selected(f)
            /\ Cardinality(IdsOf(r)) = Len(r)
            /\ \A i \in DOMAIN r :
                  /\ r[i].updated_at = conversations[r[i].id].updated_at
                  /\ Cardinality(Newer(f, r[i].updated_at)) <= offset + i - 1
                  /\ Cardinality(NotOlder(f, r[i].updated_at)) >= offset + i
            /\ \A i, j \in DOMAIN r : i < j => r[i].updated_at >= r[j].updated_at

\* C10 witness: the conversation created first was edited or appended to after the
\* second one was created, so it is listed first, and the second page holds the
\* other one.
C10_Witness ==
    /\ DOMAIN conversations = {1, 2}
    /\ conversations[1].updated_at > conversations[2].updated_at
    /\ \A r \in getAllConversations(1, 0, NoFilters) : Len(r) = 1 /\ r[1].id = 1
    /\ \A r \in getAllConversations(1, 1, NoFilters) : Len(r) = 1 /\ r[1].id = 2
\* C11: created_at is written by createConversation, as the current time, and no
\* later call changes it; every successful saveMessage and every updateConversation
\* with a recognised key leaves updated_at at the current time.
C11_Step ==
    /\ \A c \in DOMAIN conversations \cap DOMAIN conversations' :
          conversations'[c].created_at = conversations[c].created_at
    /\ \A c \in DOMAIN conversations' \ DOMAIN conversations :
          conversations'[c].created_at = now'
    /\ \A c \in DOMAIN conversations :
          (SaveMessage(c, "user", Prompt, FALSE) /\ ret' = "ok")
              => conversations'[c].updated_at = now'
    /\ \A c \in DOMAIN conversations, v \in {0, 1} :
          UpdateConversation(c, [archived |-> v])
              => conversations'[c].updated_at = now'

C11_Timestamps == [][C11_Step]_vars

\* C11 witness: a conversation appended to and archived after the millisecond of
\* its creation: updated_at has moved on, created_at has not.
C11_Witness ==
    \E c \in DOMAIN conversations :
        /\ conversations[c].created_at = 0
        /\ conversations[c].updated_at = now
        /\ now > 0
        /\ conversations[c].message_count = 1
        /\ conversations[c].archived = 1

\* C12: in every summary of a listing, title is the title generated from the
\* conversation's earliest user message, or "Untitled Conversation" when it has no
\* user message; preview is the first 100 characters of its earliest assistant
\* message, or "" when it has none.
Earliest(id, role) ==
    LET S == {m \in MessagesOf(messages, id) : m.role = role}
    IN  {x \in S : \A y \in S : x.timestamp <= y.timestamp}

C12_SummaryTitle ==
    \A r \in getAllConversations(MaxLimit, 0, NoFilters) :
        \A i \in DOMAIN r :
            /\ IF Earliest(r[i].id, "user") = {}
               THEN r[i].title = "Untitled Conversation"
               ELSE \E m \in Earliest(r[i].id, "user") : r[i].title = generateTitle(m.content)
            /\ IF Earliest(r[i].id, "assistant") = {}
               THEN r[i].preview = ""
               ELSE \E m \in Earliest(r[i].id, "assistant") :
                       r[i].preview = Substring0(m.content, PreviewChars)

\* C13 as stated: for every text t, with t' = t trimmed, the generated title is t'
\* when t' has at most 50 characters, and the first 50 characters of t' followed by
\* "..." when it has more.
TitleRule(t) ==
    LET trimmed == Trim(t)
    IN  IF Len(trimmed) <= TitleChars THEN trimmed
        ELSE SubSeq(trimmed, 1, TitleChars) \o "..."

C14_RenameIsRead ==
    \A c \in DOMAIN conversations :
        conversations[c].title # NULL =>
            /\ getConversation(c).title = conversations[c].title
            /\ \A r \in getConversationWithMessages(c) : r.title = conversations[c].title
            /\ \A f \in Filters :
                  \A r \in getAllConversations(MaxLimit, 0, f) :
                      \A i \in DOMAIN r : r[i].id = c => r[i].title = conversations[c].title

\* C15: for an id that is not stored, getConversation and getConversationWithMessages
\* return the not-found signal, without a message list, and the load-conversation
\* handler answers {success: false, error: 'Conversation not found'}; for a stored
\* id it answers with a success envelope.
C15_NotFound ==
    /\ \A c \in ConvIdArgs \ DOMAIN conversations :
          /\ getConversation(c) = NotFound
          /\ getConversationWithMessages(c) = {NotFound}
          /\ \A r \in getConversationWithMessages(c) : "messages" \notin DOMAIN r
          /\ LoadConversation(c) = {[success |-> FALSE, error |-> "Conversation not found"]}
    /\ \A c \in DOMAIN conversations :
          \A e \in LoadConversation(c) :
              e.success /\ e.conversation.found /\ e.conversation.id = c

\* C15 witness: of two conversations created one was deleted after it had got a
\* message; its id is loaded with the not-found answer, the other with success.
C15_Witness ==
    /\ convIds = 2
    /\ msgIds = 2
    /\ \E c, d \in 1..convIds :
          /\ c \notin DOMAIN conversations
          /\ d \in DOMAIN conversations
          /\ \A e \in LoadConversation(c) : ~e.success
          /\ \A e \in LoadConversation(d) : e.success /\ Len(e.conversation.messages) = 1

\* C16: a saveCompleteConversation of k items that completes adds exactly one
\* conversation, holding exactly 2k messages and message_count 2k, and every
\* getConversationWithMessages of it returns, for each item in order, its prompt as
\* a user message followed by its answer as an assistant message with its error flag.
C16_Expected(items, r) ==
    /\ Len(r.messages) = 2 * Len(items)
    /\ r.message_count = 2 * Len(items)
    /\ \A i \in DOMAIN items :
          /\ r.messages[2 * i - 1].role = "user"
          /\ r.messages[2 * i - 1].content = items[i].prompt
          /\ r.messages[2 * i].role = "assistant"
          /\ r.messages[2 * i].content = items[i].answer
          /\ r.messages[2 * i].error = items[i].error

C16_BatchReadBack ==
    [][\A items \in Items :
          (SaveCompleteConversation(NULL, items) /\ ret' = "ok") =>
              /\ DOMAIN conversations' = DOMAIN conversations \cup {convIds'}
              /\ convIds' \notin DOMAIN conversations
              /\ Len(messages') = Len(messages) + 2 * Len(items)
              /\ \A r \in getConversationWithMessagesIn(conversations', messages', convIds') :
                    C16_Expected(items, r)]_vars

\* C17: a run of the migrations calls up() of exactly the versions above the stored
\* one, in ascending order, stopping at the first that throws; a step's version is
\* stored only once its up() has returned, so a run that throws leaves the version
\* of the last step that succeeded; a run that returns leaves the highest known
\* version; and no step of the program lowers the stored version.
StoredVersion == getCurrentVersion([tables |-> tables, schemaVersion |-> schemaVersion])
StoredVersionAfter == getCurrentVersion([tables |-> tables', schemaVersion |-> schemaVersion'])
Above(version) == [i \in 1..(MaxVersion - version) |-> version + i]

C17_Run ==
    (WhenReady /\ Len(handles') > Len(handles)) =>
        /\ Len(ran') <= Len(Above(StoredVersion))
        /\ ran' = SubSeq(Above(StoredVersion), 1, Len(ran'))
        /\ ret' = "ok" =>
              /\ ran' = Above(StoredVersion)
              /\ StoredVersionAfter = MaxVersion
        /\ ret' # "ok" =>
              /\ ran' # <<>>
              /\ StoredVersionAfter = ran'[Len(ran')] - 1
              /\ StoredVersionAfter = StoredVersion + Len(ran') - 1

C17_MigrateAscending ==
    [][C17_Run /\ StoredVersionAfter >= StoredVersion]_vars

\* C17 witness: a start-up that found the version one below the highest, a step
\* having thrown in an earlier start-up, ran the one step left and stored its version.
C17_Witness ==
    /\ process = "ready"
    /\ ret = "ok"
    /\ ran = <<MaxVersion>>
    /\ StoredVersion = MaxVersion
    /\ conversationService # 0

\* C18: a run of the migrations on a database that an earlier run has brought to
\* the highest version throws nothing, calls no up(), and leaves the stored version,
\* the tables and every conversation and message row as they were.
C18_SecondRun ==
    (WhenReady /\ Len(handles') > Len(handles) /\ StoredVersion = MaxVersion) =>
        /\ ret' = "ok"
        /\ ran' = <<>>
        /\ schemaVersion' = schemaVersion
        /\ tables' = tables
        /\ conversations' = conversations
        /\ messages' = messages

C18_MigrateIdempotent == [][C18_SecondRun]_vars

\* C18 witness: the application was started again on a database that holds a
\* conversation with its messages; the migrations ran and called no up().
C18_Witness ==
    /\ process = "ready"
    /\ handles = <<"open">>
    /\ ran = <<>>
    /\ ret = "ok"
    /\ StoredVersion = MaxVersion
    /\ Len(messages) = 2
    /\ DOMAIN conversations # {}

\* C19: a ConversationService exists only in a process whose initialize() returned,
\* on a schema with every migration applied; when a migration step throws,
\* initialize() throws and no service is constructed, then or later in that process;
\* and every step that touches the two tables is made through a service, on the
\* fully migrated schema.
SchemaCurrent == tables = AllTables /\ StoredVersion = MaxVersion

C19_ServiceOnCurrentSchema ==
    conversationService # 0 =>
        /\ SchemaCurrent
        /\ conversationService = db
        /\ process = "ready" => handles[conversationService] = "open"

C19_Step ==
    /\ (WhenReady /\ ret' # "ok") => conversationService' = 0
    /\ conversationService' # conversationService => (WhenReady \/ Launch)
    /\ <<conversations, messages, convIds, msgIds>>' # <<conversations, messages, convIds, msgIds>>
          => (conversationService # 0 /\ SchemaCurrent)
    /\ (process = "ready" /\ process' = "ready" /\ conversationService = 0)
          => ret' \in {"TypeError", "Invalid conversation data"}

C19_StoreAfterMigration == []C19_ServiceOnCurrentSchema /\ [][C19_Step]_vars

\* C19 witness: a migration step threw with part of the tables created; the process
\* went on without a service and has answered a store request with an error, the
\* tables untouched.
C19_Witness ==
    /\ process = "ready"
    /\ db # 0
    /\ conversationService = 0
    /\ tables # {}
    /\ tables # AllTables
    /\ ret = "TypeError"
    /\ convIds = 0

\* C20: close() called when no handle was ever opened, or when the handle is closed
\* already, throws nothing and changes nothing; close() on an open handle closes
\* it; and a handle that is closed stays closed.
C20_Step ==
    /\ Close =>
          /\ ret' = "ok"
          /\ (db = 0 \/ (db # 0 /\ handles[db] = "closed")) =>
                UNCHANGED <<handles, db, tables, schemaVersion, ran, conversations, messages>>
          /\ (db # 0 /\ handles[db] = "open") =>
                /\ handles' = [handles EXCEPT ![db] = "closed"]
                /\ UNCHANGED <<db, tables, schemaVersion, ran, conversations, messages>>
    /\ \A h \in DOMAIN handles :
          handles[h] = "closed" => (h \in DOMAIN handles' /\ handles'[h] = "closed")

C20_CloseIdempotent == [][C20_Step]_vars

\* C20 witness: the handle of the service was opened, the schema migrated, and the
\* handle closed; close() can be called again there.
C20_Witness ==
    /\ db # 0
    /\ handles[db] = "closed"
    /\ SchemaCurrent
    /\ ret = "ok"
    /\ ENABLED Close

\* C21: whatever the sequence of initialize(), getDb() and close() calls, at most
\* one handle is open at any time, and a ConversationService holds the handle
\* getDb() returns.
OpenHandles == {h \in DOMAIN handles : handles[h] = "open"}

C21_OneOpenHandle ==
    /\ Cardinality(OpenHandles) <= 1
    /\ OpenHandles # {} => OpenHandles = {getDb(Database)}
    /\ conversationService # 0 => conversationService = getDb(Database)

\* C22: every conversation handler settles every request with an envelope,
\* {success: true, ...} or {success: false, error}; no request is rejected with an
\* exception, whether the store throws, the service is missing or the payload is.
C22_AlwaysEnvelope == ret # Rejected

\* C23: in the main-app window a prompt whose AI request has settled shows its answer
\* or its error text, and the input is disabled exactly while an AI request is under
\* way: at every stage and after every outcome of the saves (stored, failure answer,
\* rejected call) the answer stays and the input is enabled again.
Settled(n) == sends[n].stage # "asking"

C23_AnswerShown ==
    surface = "app" =>
        /\ Len(history) = Len(sends)
        /\ isSending = (\E n \in DOMAIN sends : ~Settled(n))
        /\ \A n \in DOMAIN sends :
              Settled(n) =>
                 /\ history[n].prompt = PromptOf(n)
                 /\ history[n].answer \in {AnswerOf(n, r) : r \in AiResults}
                 /\ ~history[n].loading

\* a save that was rejected, and one that was answered with a failure, behind an answer
\* that is shown
C23_Witness ==
    /\ surface = "app"
    /\ Len(sends) = 2
    /\ sends[1].stage = "done"
    /\ sends[2].stage = "done"
    /\ ret = InvokeRejected
    /\ conversations = <<>>
    /\ history[1].answer = AnswerOf(1, "text")
    /\ history[2].answer = AnswerOf(2, "error")
    /\ ~isSending

\* C24: of the calls one window has started, at most one has a request under way (the
\* AI request or one of its saves): never two at a time.
InFlight == {n \in DOMAIN sends : sends[n].stage # "done"}

C24_OneInFlight == Cardinality(InFlight) <= 1

\* C29: what the main-app window saves in one session goes into one conversation: the
\* store never holds two conversations created by the session's sends.
C29_OneConversation == surface = "app" => Cardinality(DOMAIN conversations) <= 1

\* C25: a stored message row stays as it is, at its place, for as long as its
\* conversation exists: every step leaves each row of a surviving conversation
\* unchanged, keeps the rows in their order and adds rows only at the end; a row goes
\* only together with its conversation.
Surviving(msgs, convs) == SelectSeq(msgs, LAMBDA m : m.conversation_id \in DOMAIN convs)

C25_Step ==
    /\ Len(messages') >= Len(Surviving(messages, conversations'))
    /\ SubSeq(messages', 1, Len(Surviving(messages, conversations')))
          = Surviving(messages, conversations')
    /\ \A i \in DOMAIN messages :
          messages[i].conversation_id \notin DOMAIN conversations'
              => /\ messages[i].conversation_id \in DOMAIN conversations
                 /\ DeleteConversation(messages[i].conversation_id)

C25_AppendOnly == [][C25_Step]_vars

\* C25 witness: a message of a conversation that was starred and renamed after it was
\* stored, next to a message that went with its deleted conversation.
C25_Witness ==
    /\ msgIds = 2
    /\ Len(messages) = 1
    /\ messages[1].timestamp = 0
    /\ LET c == messages[1].conversation_id
       IN /\ conversations[c].starred = 1
          /\ conversations[c].title = "Renamed"
          /\ conversations[c].updated_at > 0
    /\ convIds = 2
    /\ Cardinality(DOMAIN conversations) = 1

\* C26: a saveCompleteConversation that throws after j appends leaves the new
\* conversation with exactly the first j messages of the sequence user, assistant,
\* user, ... it was to write, in that order and behind the rows that were there: it
\* stops at the first message the store refuses, and the conversation exists even
\* when no message was written. A call that returns has written all of them.
Intended(items) ==
    [k \in 1..(2 * Len(items)) |->
        IF k % 2 = 1
        THEN [role |-> "user", content |-> items[(k + 1) \div 2].prompt, error |-> 0]
        ELSE [role |-> "assistant", content |-> items[k \div 2].answer,
              error |-> IF items[k \div 2].error THEN 1 ELSE 0]]

Written(msgs, id) ==
    LET own == SelectSeq(msgs, LAMBDA m : m.conversation_id = id)
    IN  [k \in DOMAIN own |->
            [role |-> own[k].role, content |-> own[k].content, error |-> own[k].error]]

C26_Batch(items) ==
    LET id == convIds'
        j == Len(messages') - Len(messages)
    IN  /\ id \notin DOMAIN conversations
        /\ DOMAIN conversations' = DOMAIN conversations \cup {id}
        /\ j \in 0..(2 * Len(items))
        /\ SubSeq(messages', 1, Len(messages)) = messages
        /\ Written(messages', id) = SubSeq(Intended(items), 1, j)
        /\ conversations'[id].message_count = j
        /\ \A k \in (Len(messages) + 1)..(Len(messages') - 1) :
              messages'[k].timestamp <= messages'[k + 1].timestamp
        /\ ret' = "ok" => j = 2 * Len(items)
        /\ ret' # "ok" => /\ j < 2 * Len(items)
                          /\ Intended(items)[j + 1].content = NULL

C26_BatchPrefix ==
    [][\A items \in Items : SaveCompleteConversation(NULL, items) => C26_Batch(items)]_vars

\* C26 witness: a batch refused at its second message: the conversation is there
\* with the first message only.
C26_Witness ==
    /\ ret = "SQLITE_CONSTRAINT_NOTNULL"
    /\ convIds = 1
    /\ msgIds = 1
    /\ conversations[1].message_count = 1
    /\ Written(messages, 1) = <<[role |-> "user", content |-> Prompt, error |-> 0]>>

\* C30: every stored conversation has screenshot_hash null exactly when it has no
\* screenshot, and otherwise the digest of the screenshot it stores; no step changes
\* the screenshot or the hash of a conversation that stays in the store.
HashOfScreenshot(row) ==
    IF row.screenshot_data_url = NULL
    THEN row.screenshot_hash = NULL
    ELSE /\ row.screenshot_hash # NULL
         /\ row.screenshot_hash = calculateHash(row.screenshot_data_url)

C30_Step ==
    /\ \A c \in DOMAIN conversations' : HashOfScreenshot(conversations'[c])
    /\ \A c \in DOMAIN conversations \cap DOMAIN conversations' :
          /\ conversations'[c].screenshot_data_url = conversations[c].screenshot_data_url
          /\ conversations'[c].screenshot_hash = conversations[c].screenshot_hash
    /\ \A s \in ScreenshotArgs :
          CreateConversation(s) =>
              conversations'[convIds'].screenshot_data_url = (IF Falsy(s) THEN NULL ELSE s)

C30_ScreenshotHash == [][C30_Step]_vars

\* C30 witness: a conversation with a screenshot and one without, both edited with an
\* updates object that names a screenshot column, the first also appended to.
C30_Witness ==
    \E c, d \in DOMAIN conversations :
        /\ conversations[c].screenshot_data_url = Screenshot
        /\ conversations[c].screenshot_hash = calculateHash(Screenshot)
        /\ conversations[c].starred = 1
        /\ conversations[c].message_count = 1
        /\ conversations[d].screenshot_data_url = NULL
        /\ conversations[d].screenshot_hash = NULL
        /\ conversations[d].starred = 1

\* C27: the 'closed' event of a window that is not the current floating window leaves
\* the reference alone, a window that is open is the one the reference names, and no
\* window listener uses a floating window that is null or destroyed.
C27_Step ==
    /\ \A w \in DOMAIN windows :
          (ClosedEvent(w) /\ floatingWindow # w) => floatingWindow' = floatingWindow
    /\ \A w \in DOMAIN windows' :
          windows'[w].state = "open" => floatingWindow' = w
    /\ ~fault'

C27_NoWindowRace == [][C27_Step]_vars

\* C27 witness: the first window was destroyed, then replaced before its 'closed'
\* event came; the event came and the second window, shown and loaded, is current.
C27_Witness ==
    /\ Len(windows) = 2
    /\ windows[1].closed = "ignored"
    /\ floatingWindow = 2
    /\ windows[2].state = "open"
    /\ windows[2].shown
    /\ windows[2].received

\* C28: at most one screencapture runs, and isCapturing is true exactly while it does;
\* a press during a capture is answered 'Capture already in progress' and starts
\* nothing; every callback resets the flag; a press while none runs starts one.
C28_Step ==
    /\ running' <= 1
    /\ isCapturing' = (running' = 1)
    /\ (PressShortcut(TRUE) /\ isCapturing) =>
          /\ running' = running
          /\ captured' = "Capture already in progress"
    /\ \A outcome \in CaptureErrors \cup {"image"} :
          CaptureCallback(outcome) => ~isCapturing'
    /\ (PressShortcut(TRUE) /\ ~isCapturing) => (isCapturing' /\ running' = 1)

C28_OneCapture == [][C28_Step]_vars

\* C28 witness: a press answered 'Capture already in progress' while the capture that
\* followed a cancelled and a successful one is still running.
C28_Witness ==
    /\ captured = "Capture already in progress"
    /\ isCapturing
    /\ running = 1
    /\ Len(windows) = 1
====
